---- MODULE Spec2Model ----
(***************************************************************************)
(* A model of the ff-graph runtime core: the SelectionController state     *)
(* machine, the Hierarchy parent/child tree with its event multicast and   *)
(* ancestor search, the System component registry and the graph-hosting    *)
(* component CGraph.  Every subsystem has its own specification; the       *)
(* variables of the other subsystems are left unchanged by it.             *)
(***************************************************************************)
EXTENDS Integers, Sequences, FiniteSets, TLC

\* ------------------------------------------------------------------ bounds
NumNodes == 2
NumComps == 2
NumHier == 3
NumSysComps == 5
MaxOwn == 2
NumNames == 2
MaxGraphLen == 3
NumSearchHier == 6
MaxFrames == 4
NumContexts == 3

Nodes == 1..NumNodes
Comps == 1..NumComps
Hier == 1..NumHier
SearchHier == 1..NumSearchHier
Contexts == 1..NumContexts
\* the component type a search asks for
Types == {"CType"}
SysComps == 1..NumSysComps

VARIABLES
    \* SelectionController
    multiSelect,          \* field multiSelect
    exclusiveSelect,      \* field exclusiveSelect
    selectedNodes,        \* _selectedNodes: a JS Set, kept in insertion order
    selectedComponents,   \* _selectedComponents: a JS Set, in insertion order
    subscribed,           \* the controller's handlers are registered at the System
    emitted,              \* the events emitted by the last call, in order
    selOp,                \* the last call on the controller and its arguments
    everMulti,            \* history: multiSelect has been true at some time
    everNonExclusive,     \* history: exclusiveSelect has been false at some time
    \* Hierarchy components, one per node
    parent,               \* _parent of every hierarchy (Null at a root)
    children,             \* _children of every hierarchy, in insertion order
    nodeComps,            \* the component types present on every hierarchy's node
    hEmitted,             \* the hierarchy events emitted by the last call, in order
    hOp,                  \* the last call on a hierarchy, its arguments and outcome
    hung,                 \* the last call entered a loop it never leaves
    alive,                \* the hierarchies that have not been disposed
    hSteps,               \* the steps of the last dispose() call, in order
    hBool,                \* the value the last hasChildren() call returned
    \* System and CGraph
    components,           \* System.components: the registered components, in order
    cgOwn,                \* the CGraph component's own serialized state
    cgGraph,              \* the content of the CGraph's nested graph
    cgJson,               \* the value the last CGraph.deflate() returned
    sysOp,                \* the last call on the System and its outcome
    cgOp,                 \* the last call on the CGraph and its outcome
    cgChanged,            \* the CGraph component's `changed` flag
    cgCalls,              \* the passes of the nested graph the last call invoked
    cgResult,             \* the value the last update() or tick() returned
    cgPhase,              \* the pass of the frame the driver invokes next
    cgFrames              \* the number of frames the driver has completed

selVars == <<multiSelect, exclusiveSelect, selectedNodes, selectedComponents,
             subscribed, emitted, selOp, everMulti, everNonExclusive>>

hierVars == <<parent, children, nodeComps, hEmitted, hOp, hung, alive, hSteps, hBool>>

sysVars == <<components, sysOp>>

cgVars == <<cgOwn, cgGraph, cgJson, cgOp, cgChanged, cgCalls, cgResult, cgPhase,
           cgFrames>>

vars == <<selVars, hierVars, sysVars, cgVars>>

notSelVars == <<hierVars, sysVars, cgVars>>
notHierVars == <<selVars, sysVars, cgVars>>
notSysVars == <<selVars, hierVars, cgVars>>
notCgVars == <<selVars, hierVars, sysVars>>

\* ------------------------------------------------- insertion-ordered sets
\* Set.prototype.has
SetHas(s, x) == \E i \in 1..Len(s) : s[i] = x

\* Set.prototype.clear in the place of delete
SetDelete_Clear(s, x) == <<>>

\* Set.prototype.delete: the other elements keep their order
SetDelete(s, x) == SelectSeq(s, LAMBDA y : y # x)

\* Set.prototype.add: a new element goes last, a present one stays in place
SetAdd(s, x) == IF SetHas(s, x) THEN s ELSE Append(s, x)

SetElems(s) == {s[i] : i \in 1..Len(s)}

RECURSIVE Flatten(_)
Flatten(ss) == IF ss = <<>> THEN <<>> ELSE Head(ss) \o Flatten(Tail(ss))

\* ------------------------------------------------------- selection events
\* An emitted event: who emits it (the controller or the System), under which
\* event name, about which entity, and with which payload.  `member` records
\* whether the entity is in its selection set at the moment of emission.
ControllerEvent(type, kind, id, selected, member) ==
    [src |-> "controller", type |-> type, kind |-> kind, id |-> id,
     selected |-> selected, member |-> member]

SystemEvent(type, kind, id, selected, member) ==
    [src |-> "system", type |-> type, kind |-> kind, id |-> id,
     selected |-> selected, member |-> member]

selectNodeEvent == "node"
selectComponentEvent == "component"
updateEvent == "update"

\* emitSelectNodeEvent(node, selected), called while the node set is `current`
emitSelectNodeEvent(node, selected, current) ==
    << ControllerEvent(selectNodeEvent, "node", node, selected, SetHas(current, node)) >>

\* emitSelectComponentEvent(component, selected): the controller's own event,
\* then system.emitComponentEvent(component, selectNodeEvent, event)
emitSelectComponentEvent(component, selected, current) ==
    << ControllerEvent(selectComponentEvent, "component", component, selected,
                       SetHas(current, component)),
       SystemEvent(selectNodeEvent, "component", component, selected,
                   SetHas(current, component)) >>

emitUpdateEvent ==
    << ControllerEvent(updateEvent, "none", 0, FALSE, FALSE) >>

\* ------------------------------------------------- clearing a selection
\* for (let selectedNode of selectedNodes) emitSelectNodeEvent(selectedNode,
\* false); selectedNodes.clear(): the events go out while the set is still full
deselectAllNodes_NoClear(sn) ==
    [set |-> sn,
     events |-> Flatten([i \in 1..Len(sn) |-> emitSelectNodeEvent(sn[i], FALSE, sn)])]

deselectAllNodes(sn) ==
    [set |-> <<>>,
     events |-> Flatten([i \in 1..Len(sn) |-> emitSelectNodeEvent(sn[i], FALSE, sn)])]

deselectAllComponents_NoClear(sc) ==
    [set |-> sc,
     events |-> Flatten([i \in 1..Len(sc) |->
                            emitSelectComponentEvent(sc[i], FALSE, sc)])]

deselectAllComponents(sc) ==
    [set |-> <<>>,
     events |-> Flatten([i \in 1..Len(sc) |->
                            emitSelectComponentEvent(sc[i], FALSE, sc)])]

Keep(s) == [set |-> s, events |-> <<>>]

\* ------------------------------------------------------------- selectNode
\* selectNode deselecting a selected node whatever multiSelect and toggle are
selectNode_AlwaysToggle(sn, sc, ms, ex, node, toggle) ==
    LET multi == ms /\ toggle IN
    IF SetHas(sn, node)
    THEN LET sn1 == SetDelete(sn, node) IN
         [nodes |-> sn1, comps |-> sc,
          events |-> emitSelectNodeEvent(node, FALSE, sn1)]
    ELSE LET c1  == IF ex THEN deselectAllComponents(sc) ELSE Keep(sc)
             n1  == IF ~multi THEN deselectAllNodes(sn) ELSE Keep(sn)
             sn2 == SetAdd(n1.set, node)
         IN  [nodes |-> sn2, comps |-> c1.set,
              events |-> c1.events \o n1.events
                         \o emitSelectNodeEvent(node, TRUE, sn2)]

\* The outcome of selectNode(node, toggle) on the sets sn (nodes) and sc
\* (components): the new sets and the events emitted, in order.
selectNode(sn, sc, ms, ex, node, toggle) ==
    LET multi == ms /\ toggle IN
    IF SetHas(sn, node)
    THEN IF multi
         THEN LET sn1 == SetDelete(sn, node) IN
              [nodes |-> sn1, comps |-> sc,
               events |-> emitSelectNodeEvent(node, FALSE, sn1)]
         ELSE [nodes |-> sn, comps |-> sc, events |-> <<>>]
    ELSE LET c1  == IF ex THEN deselectAllComponents(sc) ELSE Keep(sc)
             n1  == IF ~multi THEN deselectAllNodes(sn) ELSE Keep(sn)
             sn2 == SetAdd(n1.set, node)
         IN  [nodes |-> sn2, comps |-> c1.set,
              events |-> c1.events \o n1.events
                         \o emitSelectNodeEvent(node, TRUE, sn2)]

\* -------------------------------------------------------- selectComponent
selectComponent(sn, sc, ms, ex, component, toggle) ==
    LET multi == ms /\ toggle IN
    IF SetHas(sc, component)
    THEN IF multi
         THEN LET sc1 == SetDelete(sc, component) IN
              [nodes |-> sn, comps |-> sc1,
               events |-> emitSelectComponentEvent(component, FALSE, sc1)]
         ELSE [nodes |-> sn, comps |-> sc, events |-> <<>>]
    ELSE LET n1  == IF ex THEN deselectAllNodes(sn) ELSE Keep(sn)
             c1  == IF ~multi THEN deselectAllComponents(sc) ELSE Keep(sc)
             sc2 == SetAdd(c1.set, component)
         IN  [nodes |-> n1.set, comps |-> sc2,
              events |-> n1.events \o c1.events
                         \o emitSelectComponentEvent(component, TRUE, sc2)]

\* ----------------------------------------------------------- onSystemNode
\* The handler of System node events: event.remove and event.node
onSystemNode(sn, sc, ms, ex, node, remove) ==
    LET r == IF remove /\ SetHas(sn, node)
             THEN selectNode(sn, sc, ms, ex, node, FALSE)
             ELSE [nodes |-> sn, comps |-> sc, events |-> <<>>]
    IN  [nodes |-> r.nodes, comps |-> r.comps, events |-> r.events \o emitUpdateEvent]

\* The handler of System component events
onSystemComponent(sn, sc, ms, ex, component, remove) ==
    LET r == IF remove /\ SetHas(sc, component)
             THEN selectComponent(sn, sc, ms, ex, component, FALSE)
             ELSE [nodes |-> sn, comps |-> sc, events |-> <<>>]
    IN  [nodes |-> r.nodes, comps |-> r.comps, events |-> r.events \o emitUpdateEvent]

\* ------------------------------------------------------------ the actions
SelOpRec(op, kind, id, flag) == [op |-> op, kind |-> kind, id |-> id, flag |-> flag]

\* the client assigns the public field multiSelect
SetMultiSelect ==
    \E b \in BOOLEAN :
        /\ multiSelect' = b
        /\ everMulti' = (everMulti \/ b)
        /\ emitted' = <<>>
        /\ selOp' = SelOpRec("setMultiSelect", "none", 0, b)
        /\ UNCHANGED <<exclusiveSelect, selectedNodes, selectedComponents,
                       subscribed, everNonExclusive, notSelVars>>

\* the client assigns the public field exclusiveSelect
SetExclusiveSelect ==
    \E b \in BOOLEAN :
        /\ exclusiveSelect' = b
        /\ everNonExclusive' = (everNonExclusive \/ ~b)
        /\ emitted' = <<>>
        /\ selOp' = SelOpRec("setExclusiveSelect", "none", 0, b)
        /\ UNCHANGED <<multiSelect, selectedNodes, selectedComponents,
                       subscribed, everMulti, notSelVars>>

SelectNode ==
    \E n \in Nodes, toggle \in BOOLEAN :
        LET r == selectNode(selectedNodes, selectedComponents,
                            multiSelect, exclusiveSelect, n, toggle) IN
        /\ selectedNodes' = r.nodes
        /\ selectedComponents' = r.comps
        /\ emitted' = r.events
        /\ selOp' = SelOpRec("selectNode", "node", n, toggle)
        /\ UNCHANGED <<multiSelect, exclusiveSelect, subscribed, everMulti,
                       everNonExclusive, notSelVars>>

SelectComponent ==
    \E c \in Comps, toggle \in BOOLEAN :
        LET r == selectComponent(selectedNodes, selectedComponents,
                                 multiSelect, exclusiveSelect, c, toggle) IN
        /\ selectedNodes' = r.nodes
        /\ selectedComponents' = r.comps
        /\ emitted' = r.events
        /\ selOp' = SelOpRec("selectComponent", "component", c, toggle)
        /\ UNCHANGED <<multiSelect, exclusiveSelect, subscribed, everMulti,
                       everNonExclusive, notSelVars>>

\* The System emits a node event (add or remove); the controller's handler
\* runs if it is registered.
SystemNodeEvent ==
    \E n \in Nodes, remove \in BOOLEAN :
        LET r == IF subscribed
                 THEN onSystemNode(selectedNodes, selectedComponents,
                                   multiSelect, exclusiveSelect, n, remove)
                 ELSE [nodes |-> selectedNodes, comps |-> selectedComponents,
                       events |-> <<>>] IN
        /\ selectedNodes' = r.nodes
        /\ selectedComponents' = r.comps
        /\ emitted' = r.events
        /\ selOp' = SelOpRec("systemNodeEvent", "node", n, remove)
        /\ UNCHANGED <<multiSelect, exclusiveSelect, subscribed, everMulti,
                       everNonExclusive, notSelVars>>

SystemComponentEvent ==
    \E c \in Comps, remove \in BOOLEAN :
        LET r == IF subscribed
                 THEN onSystemComponent(selectedNodes, selectedComponents,
                                        multiSelect, exclusiveSelect, c, remove)
                 ELSE [nodes |-> selectedNodes, comps |-> selectedComponents,
                       events |-> <<>>] IN
        /\ selectedNodes' = r.nodes
        /\ selectedComponents' = r.comps
        /\ emitted' = r.events
        /\ selOp' = SelOpRec("systemComponentEvent", "component", c, remove)
        /\ UNCHANGED <<multiSelect, exclusiveSelect, subscribed, everMulti,
                       everNonExclusive, notSelVars>>

\* dispose() that leaves the handlers registered
Dispose_KeepsHandlers ==
    /\ subscribed
    /\ subscribed' = TRUE
    /\ emitted' = <<>>
    /\ selOp' = SelOpRec("dispose", "none", 0, FALSE)
    /\ UNCHANGED <<multiSelect, exclusiveSelect, selectedNodes, selectedComponents,
                   everMulti, everNonExclusive, notSelVars>>

\* SelectionController.dispose(): system.off for both handlers
Dispose ==
    /\ subscribed
    /\ subscribed' = FALSE
    /\ emitted' = <<>>
    /\ selOp' = SelOpRec("dispose", "none", 0, FALSE)
    /\ UNCHANGED <<multiSelect, exclusiveSelect, selectedNodes, selectedComponents,
                   everMulti, everNonExclusive, notSelVars>>

SelNext ==
    \/ SetMultiSelect
    \/ SetExclusiveSelect
    \/ SelectNode
    \/ SelectComponent
    \/ SystemNodeEvent
    \/ SystemComponentEvent
    \/ Dispose


\* ================================================================ Hierarchy
\* the null reference
Null == 0

\* the absent result of a component lookup (null / undefined)
\* no type: the call takes none
NoType == "none"

NoComponent == [node |-> Null, type |-> NoType]

\* the longest walk along _parent that can end: one step per hierarchy
MaxWalk == NumHier + 1

\* node.components.get(componentOrType) on the node that owns hierarchy h
nodeGet(nc, h, t) == IF t \in nc[h] THEN [node |-> h, type |-> t] ELSE NoComponent

\* a removal that drops the last element whatever is asked for
ArrayRemove_Pop(a, x) == IF a = <<>> THEN <<>> ELSE SubSeq(a, 1, Len(a) - 1)

\* Array.prototype.indexOf / splice(index, 1): the first occurrence goes
RECURSIVE ArrayRemove(_, _)
ArrayRemove(a, x) ==
    IF a = <<>> THEN <<>>
    ELSE IF Head(a) = x THEN Tail(a)
    ELSE <<Head(a)>> \o ArrayRemove(Tail(a), x)

\* the IHierarchyEvent built by addChild / removeChild
HierarchyEvent(p, c, add) ==
    [type |-> "hierarchy", add |-> add, remove |-> ~add, parent |-> p, child |-> c]

\* component.emit(event); component.node.emit(event)
emitAt(component, event) ==
    << [at |-> "component", target |-> component, event |-> event],
       [at |-> "node", target |-> component, event |-> event] >>

\* the event reaches the attached component and its new parent only
multicast_EndpointsOnly(par, component, event, fuel) ==
    IF component = Null THEN [events |-> <<>>, hung |-> FALSE]
    ELSE [events |-> emitAt(component, event)
                     \o (IF par[component] = Null THEN <<>>
                         ELSE emitAt(par[component], event)),
          hung |-> FALSE]

\* while (component) { emit at component and its node; component =
\* component._parent }.  A walk of more than MaxWalk steps has met the same
\* hierarchy twice and never ends.
RECURSIVE multicast(_, _, _, _)
multicast(par, component, event, fuel) ==
    IF component = Null THEN [events |-> <<>>, hung |-> FALSE]
    ELSE IF fuel = 0 THEN [events |-> <<>>, hung |-> TRUE]
    ELSE LET rest == multicast(par, par[component], event, fuel - 1) IN
         [events |-> emitAt(component, event) \o rest.events, hung |-> rest.hung]

HResult(par, ch, events, error, isHung) ==
    [parent |-> par, children |-> ch, events |-> events, error |-> error,
     hung |-> isHung]

\* addChild without the test of component._parent
addChild_NoParentTest(par, ch, this, component) ==
    LET par1 == [par EXCEPT ![component] = this]
        ch1  == [ch EXCEPT ![this] = Append(ch[this], component)]
        m    == multicast(par1, component, HierarchyEvent(this, component, TRUE),
                          MaxWalk)
    IN  HResult(par1, ch1, m.events, FALSE, m.hung)

\* this.addChild(component)
addChild(par, ch, this, component) ==
    IF par[component] # Null
    THEN HResult(par, ch, <<>>, TRUE, FALSE)
    ELSE LET par1 == [par EXCEPT ![component] = this]
             ch1  == [ch EXCEPT ![this] = Append(ch[this], component)]
             m    == multicast(par1, component, HierarchyEvent(this, component, TRUE),
                               MaxWalk)
         IN  HResult(par1, ch1, m.events, FALSE, m.hung)

\* a removal that leaves the child's parent set and emits nothing
removeChild_KeepsParent(par, ch, this, component) ==
    IF par[component] # this
    THEN HResult(par, ch, <<>>, TRUE, FALSE)
    ELSE HResult(par, [ch EXCEPT ![this] = ArrayRemove(ch[this], component)],
                 <<>>, FALSE, FALSE)

\* this.removeChild(component)
removeChild(par, ch, this, component) ==
    IF par[component] # this
    THEN HResult(par, ch, <<>>, TRUE, FALSE)
    ELSE LET ch1  == [ch EXCEPT ![this] = ArrayRemove(ch[this], component)]
             par1 == [par EXCEPT ![component] = Null]
             m    == multicast(par1, component, HierarchyEvent(this, component, FALSE),
                               MaxWalk)
         IN  HResult(par1, ch1, m.events, FALSE, m.hung)

\* one step of a dispose() call, in the order the call takes them
DisposeStep(step, this, arg) == [step |-> step, this |-> this, arg |-> arg]

DResult(par, ch, al, events, steps) ==
    [parent |-> par, children |-> ch, alive |-> al, events |-> events, steps |-> steps]

\* Component.dispose (super.dispose()): the component leaves the live ones
componentDispose(al, this) == al \ {this}

RECURSIVE disposeNodes(_, _, _, _)
RECURSIVE nodeDispose(_, _, _, _)
RECURSIVE disposeHierarchy(_, _, _, _)

\* a disposal that skips the detach from the parent
disposeHierarchy_NoDetach(par, ch, al, this) ==
    LET r2 == disposeNodes(par, ch, al, ch[this])
    IN  DResult(r2.parent, r2.children, componentDispose(r2.alive, this), r2.events,
                r2.steps \o <<DisposeStep("superDispose", this, this)>>)

\* Hierarchy.dispose: detach from the parent, dispose the node of every child
\* of a copy of the child list, then the base disposal
disposeHierarchy(par, ch, al, this) ==
    LET attached == par[this] # Null
        r1 == IF attached
              THEN removeChild(par, ch, par[this], this)
              ELSE HResult(par, ch, <<>>, FALSE, FALSE)
        s1 == IF attached
              THEN <<DisposeStep("removeChild", par[this], this)>>
              ELSE <<>>
        r2 == disposeNodes(r1.parent, r1.children, al, r1.children[this])
    IN  DResult(r2.parent, r2.children, componentDispose(r2.alive, this),
                r1.events \o r2.events,
                s1 \o r2.steps \o <<DisposeStep("superDispose", this, this)>>)

\* Node.dispose: the node disposes the components it owns, its Hierarchy
\* among them
nodeDispose(par, ch, al, h) ==
    LET r == disposeHierarchy(par, ch, al, h)
    IN  [r EXCEPT !.steps = <<DisposeStep("nodeDispose", h, h)>> \o r.steps]

\* this._children.slice().forEach(child => child.node.dispose())
disposeNodes(par, ch, al, kids) ==
    IF kids = <<>> THEN DResult(par, ch, al, <<>>, <<>>)
    ELSE LET r1 == nodeDispose(par, ch, al, Head(kids))
             r2 == disposeNodes(r1.parent, r1.children, r1.alive, Tail(kids))
         IN  DResult(r2.parent, r2.children, r2.alive, r1.events \o r2.events,
                     r1.steps \o r2.steps)

\* the first loop of _getChildComponent: the first child whose node has a
\* component of the type
RECURSIVE firstDirect(_, _, _)
firstDirect(nc, kids, t) ==
    IF kids = <<>> THEN NoComponent
    ELSE IF nodeGet(nc, Head(kids), t) # NoComponent THEN nodeGet(nc, Head(kids), t)
    ELSE firstDirect(nc, Tail(kids), t)

RECURSIVE firstInSubtrees(_, _, _, _)
RECURSIVE getChildComponent(_, _, _, _, _)

\* _getChildComponent: the direct children first, then, if recursive, the
\* whole subtree of each child in turn
getChildComponent(ch, nc, hierarchy, t, recursive) ==
    IF firstDirect(nc, ch[hierarchy], t) # NoComponent
    THEN firstDirect(nc, ch[hierarchy], t)
    ELSE IF recursive THEN firstInSubtrees(ch, nc, ch[hierarchy], t)
    ELSE NoComponent

\* the second loop of _getChildComponent
firstInSubtrees(ch, nc, kids, t) ==
    IF kids = <<>> THEN NoComponent
    ELSE IF getChildComponent(ch, nc, Head(kids), t, TRUE) # NoComponent
         THEN getChildComponent(ch, nc, Head(kids), t, TRUE)
    ELSE firstInSubtrees(ch, nc, Tail(kids), t)

getChild(ch, nc, this, t, recursive) == getChildComponent(ch, nc, this, t, recursive)

hasChildren(ch, nc, this, t, recursive) ==
    getChildComponent(ch, nc, this, t, recursive) # NoComponent

\* the while loop of getParent: `parent` is tested and looked up, and is
\* not advanced inside the loop
RECURSIVE getParentLoop(_, _, _, _)
getParentLoop(nc, prnt, t, fuel) ==
    IF prnt = Null THEN [result |-> NoComponent, hung |-> FALSE]
    ELSE IF nodeGet(nc, prnt, t) # NoComponent
         THEN [result |-> nodeGet(nc, prnt, t), hung |-> FALSE]
    ELSE IF fuel = 0 THEN [result |-> NoComponent, hung |-> TRUE]
    ELSE getParentLoop(nc, prnt, t, fuel - 1)

\* this.getParent(componentOrType, recursive)
getParent(par, nc, this, t, recursive) ==
    LET prnt == par[this] IN
    IF prnt = Null THEN [result |-> NoComponent, hung |-> FALSE]
    ELSE IF nodeGet(nc, prnt, t) # NoComponent
         THEN [result |-> nodeGet(nc, prnt, t), hung |-> FALSE]
    ELSE IF recursive THEN getParentLoop(nc, par[prnt], t, MaxWalk)
    ELSE [result |-> NoComponent, hung |-> FALSE]

HOpRec(op, this, arg, type, recursive, error, result) ==
    [op |-> op, this |-> this, arg |-> arg, type |-> type, recursive |-> recursive,
     error |-> error, result |-> result]

AddChild ==
    \E p \in alive, h \in alive :
        LET r == addChild(parent, children, p, h) IN
        /\ ~hung
        /\ parent' = r.parent
        /\ children' = r.children
        /\ hEmitted' = r.events
        /\ hung' = r.hung
        /\ hOp' = HOpRec("addChild", p, h, NoType, FALSE, r.error, NoComponent)
        /\ hSteps' = <<>>
        /\ UNCHANGED <<nodeComps, alive, hBool, notHierVars>>

RemoveChild ==
    \E p \in alive, h \in alive :
        LET r == removeChild(parent, children, p, h) IN
        /\ ~hung
        /\ parent' = r.parent
        /\ children' = r.children
        /\ hEmitted' = r.events
        /\ hung' = r.hung
        /\ hOp' = HOpRec("removeChild", p, h, NoType, FALSE, r.error, NoComponent)
        /\ hSteps' = <<>>
        /\ UNCHANGED <<nodeComps, alive, hBool, notHierVars>>

GetParent ==
    \E h \in alive, t \in Types, recursive \in BOOLEAN :
        LET r == getParent(parent, nodeComps, h, t, recursive) IN
        /\ ~hung
        /\ hEmitted' = <<>>
        /\ hung' = r.hung
        /\ hOp' = HOpRec("getParent", h, Null, t, recursive, FALSE, r.result)
        /\ hSteps' = <<>>
        /\ UNCHANGED <<parent, children, nodeComps, alive, hBool, notHierVars>>

DisposeHierarchy ==
    \E h \in alive :
        LET r == disposeHierarchy(parent, children, alive, h) IN
        /\ ~hung
        /\ parent' = r.parent
        /\ children' = r.children
        /\ alive' = r.alive
        /\ hEmitted' = r.events
        /\ hSteps' = r.steps
        /\ hOp' = HOpRec("dispose", h, Null, NoType, FALSE, FALSE, NoComponent)
        /\ UNCHANGED <<nodeComps, hung, hBool, notHierVars>>

GetChild ==
    \E h \in alive, t \in Types, recursive \in BOOLEAN :
        /\ ~hung
        /\ hEmitted' = <<>>
        /\ hOp' = HOpRec("getChild", h, Null, t, recursive, FALSE,
                         getChild(children, nodeComps, h, t, recursive))
        /\ hSteps' = <<>>
        /\ UNCHANGED <<parent, children, nodeComps, hung, alive, hBool, notHierVars>>

HasChildren ==
    \E h \in alive, t \in Types, recursive \in BOOLEAN :
        /\ ~hung
        /\ hEmitted' = <<>>
        /\ hOp' = HOpRec("hasChildren", h, Null, t, recursive, FALSE, NoComponent)
        /\ hBool' = hasChildren(children, nodeComps, h, t, recursive)
        /\ hSteps' = <<>>
        /\ UNCHANGED <<parent, children, nodeComps, hung, alive, notHierVars>>

\* searching the subtree below a hierarchy
ChildSearchNext ==
    \/ GetChild
    \/ HasChildren

HierNext ==
    \/ AddChild
    \/ RemoveChild

\* building trees, taking them apart and disposing hierarchies
LifeNext ==
    \/ AddChild
    \/ RemoveChild
    \/ DisposeHierarchy

\* building trees and searching them
SearchNext ==
    \/ AddChild
    \/ GetParent

\* ================================================================== System
\* Component types: odd components are of a type flagged isSystemSingleton,
\* even ones of a type that is not.
typeName(c) == IF c % 2 = 1 THEN "CSingle" ELSE "CPlain"

isSystemSingleton(c) == typeName(c) = "CSingle"

\* ObjectRegistry.has(component): an object of the component's type is filed
registryHas(reg, c) == \E i \in 1..Len(reg) : typeName(reg[i]) = typeName(c)

\* ObjectRegistry.add(component)
registryAdd(reg, c) == Append(reg, c)

\* ObjectRegistry.remove(component); removing an absent object changes nothing
registryRemove(reg, c) == SelectSeq(reg, LAMBDA x : x # c)

\* System._addComponent(component)
addComponent_NoCheck(reg, c) == [registry |-> registryAdd(reg, c), error |-> FALSE]

addComponent(reg, c) ==
    IF isSystemSingleton(c) /\ registryHas(reg, c)
    THEN [registry |-> reg, error |-> TRUE]
    ELSE [registry |-> registryAdd(reg, c), error |-> FALSE]

\* System._removeComponent(component)
removeComponent(reg, c) == [registry |-> registryRemove(reg, c), error |-> FALSE]

SysOpRec(op, id, error) == [op |-> op, id |-> id, error |-> error]

\* ------------------------------------------------------------------ CGraph
\* what a function without a return statement returns
Undefined == [defined |-> FALSE, own |-> 0, graph |-> [nodes |-> <<>>]]

\* Component.deflate(): the component's own record
componentDeflate(own) == [defined |-> TRUE, own |-> own, graph |-> [nodes |-> <<>>]]

\* Graph.deflate(): the ordered node records of the graph
graphDeflate(g) == [nodes |-> g]

\* Graph.inflate(json)
graphInflate(json) == json.nodes

\* CGraph.deflate(): builds json, attaches json.graph, and returns nothing
deflate(own, g) ==
    LET json0 == componentDeflate(own)
        json  == [json0 EXCEPT !.graph = graphDeflate(g)]
    IN  Undefined

\* CGraph.inflate(json): super.inflate(json), then graph.inflate(json.graph);
\* reading a property of undefined throws
inflate(own, g, json) ==
    IF ~json.defined
    THEN [own |-> own, graph |-> g, error |-> TRUE]
    ELSE [own |-> json.own, graph |-> graphInflate(json.graph), error |-> FALSE]

\* a call of a pass of the nested graph with its context argument, the value
\* `changed` has when the call is made, and what the call returned (FALSE
\* stands for the render passes, which return nothing)
GraphCall(pass, context, changed, returned) ==
    [pass |-> pass, context |-> context, changed |-> changed, returned |-> returned]

\* Graph.update / tick / preRender / postRender of the nested graph: r is
\* what the nested graph answers
graphPass(pass, context, changed, r) ==
    [calls |-> <<GraphCall(pass, context, changed, r)>>, result |-> r]

PassResult(changed, calls, result) ==
    [changed |-> changed, calls |-> calls, result |-> result]

\* CGraph.update
update(changed, context, r) ==
    LET g == graphPass("update", context, changed, r)
    IN  PassResult(changed, g.calls, g.result)

\* a tick that forwards without touching the flag
tick_KeepsFlag(changed, context, r) ==
    LET g == graphPass("tick", context, changed, r)
    IN  PassResult(changed, g.calls, g.result)

\* CGraph.tick
tick(changed, context, r) ==
    LET changed1 == TRUE
        g == graphPass("tick", context, changed1, r)
    IN  PassResult(changed1, g.calls, g.result)

\* CGraph.preRender; the call returns nothing, the last returned value stays
preRender(changed, context, last) ==
    LET g == graphPass("preRender", context, changed, FALSE)
    IN  PassResult(changed, g.calls, last)

\* CGraph.postRender
postRender(changed, context, last) ==
    LET g == graphPass("postRender", context, changed, FALSE)
    IN  PassResult(changed, g.calls, last)

CgOpRec(op, error) == [op |-> op, error |-> error]

OwnValues == 0..MaxOwn
GraphContents == UNION {[1..n -> 1..NumNames] : n \in 0..MaxGraphLen}

\* the well-formed serialized records of a CGraph
JsonRecords ==
    {[defined |-> TRUE, own |-> o, graph |-> [nodes |-> g]] :
        o \in OwnValues, g \in GraphContents}

\* a component registers itself at construction: it is not yet registered
AddComponent ==
    \E c \in SysComps :
        LET r == addComponent(components, c) IN
        /\ ~SetHas(components, c)
        /\ components' = r.registry
        /\ sysOp' = SysOpRec("_addComponent", c, r.error)
        /\ UNCHANGED notSysVars

RemoveComponent ==
    \E c \in SysComps :
        LET r == removeComponent(components, c) IN
        /\ components' = r.registry
        /\ sysOp' = SysOpRec("_removeComponent", c, r.error)
        /\ UNCHANGED notSysVars

Deflate ==
    /\ cgJson' = deflate(cgOwn, cgGraph)
    /\ cgOp' = CgOpRec("deflate", FALSE)
    /\ cgCalls' = <<>>
    /\ UNCHANGED <<cgOwn, cgGraph, cgChanged, cgResult, cgPhase, cgFrames, notCgVars>>

\* inflate(json) with a well-formed record
Inflate ==
    \E json \in JsonRecords :
        LET r == inflate(cgOwn, cgGraph, json) IN
        /\ cgOwn' = r.own
        /\ cgGraph' = r.graph
        /\ cgOp' = CgOpRec("inflate", r.error)
        /\ cgCalls' = <<>>
        /\ UNCHANGED <<cgJson, cgChanged, cgResult, cgPhase, cgFrames, notCgVars>>

\* inflate(deflate()): the record the last deflate() returned is fed back
InflateDeflated ==
    LET r == inflate(cgOwn, cgGraph, cgJson) IN
    /\ cgOp.op = "deflate"
    /\ cgOwn' = r.own
    /\ cgGraph' = r.graph
    /\ cgOp' = CgOpRec("inflateDeflated", r.error)
    /\ cgCalls' = <<>>
    /\ UNCHANGED <<cgJson, cgChanged, cgResult, cgPhase, cgFrames, notCgVars>>

\* the driver's update pass: update() is called, and the pass that called it
\* consumes the dirty flag, which is then cleared or has been set again
Update ==
    \E context \in Contexts, r \in BOOLEAN, after \in BOOLEAN :
        LET u == update(cgChanged, context, r) IN
        /\ cgPhase = "update"
        /\ cgFrames < MaxFrames
        /\ cgChanged' = after
        /\ cgCalls' = u.calls
        /\ cgResult' = u.result
        /\ cgPhase' = "tick"
        /\ cgOp' = CgOpRec("update", FALSE)
        /\ UNCHANGED <<cgOwn, cgGraph, cgJson, cgFrames, notCgVars>>

Tick ==
    \E context \in Contexts, r \in BOOLEAN :
        LET t == tick(cgChanged, context, r) IN
        /\ cgPhase = "tick"
        /\ cgChanged' = t.changed
        /\ cgCalls' = t.calls
        /\ cgResult' = t.result
        /\ cgPhase' = "preRender"
        /\ cgOp' = CgOpRec("tick", FALSE)
        /\ UNCHANGED <<cgOwn, cgGraph, cgJson, cgFrames, notCgVars>>

PreRender ==
    \E context \in Contexts :
        LET p == preRender(cgChanged, context, cgResult) IN
        /\ cgPhase = "preRender"
        /\ cgChanged' = p.changed
        /\ cgCalls' = p.calls
        /\ cgResult' = p.result
        /\ cgPhase' = "postRender"
        /\ cgOp' = CgOpRec("preRender", FALSE)
        /\ UNCHANGED <<cgOwn, cgGraph, cgJson, cgFrames, notCgVars>>

PostRender ==
    \E context \in Contexts :
        LET p == postRender(cgChanged, context, cgResult) IN
        /\ cgPhase = "postRender"
        /\ cgChanged' = p.changed
        /\ cgCalls' = p.calls
        /\ cgResult' = p.result
        /\ cgPhase' = "update"
        /\ cgFrames' = cgFrames + 1
        /\ cgOp' = CgOpRec("postRender", FALSE)
        /\ UNCHANGED <<cgOwn, cgGraph, cgJson, notCgVars>>

\* the frames the driver runs: update, tick, preRender, postRender
FrameNext ==
    \/ Update
    \/ Tick
    \/ PreRender
    \/ PostRender

SysNext ==
    \/ AddComponent
    \/ RemoveComponent

CgNext ==
    \/ Deflate
    \/ Inflate
    \/ InflateDeflated

\* ========================================================= specifications
\* The controller after construction; no hierarchy is attached, no component
\* is registered.
InitSelection ==
    /\ multiSelect = FALSE
    /\ exclusiveSelect = TRUE
    /\ selectedNodes = <<>>
    /\ selectedComponents = <<>>
    /\ subscribed = TRUE
    /\ emitted = <<>>
    /\ selOp = SelOpRec("new", "none", 0, FALSE)
    /\ everMulti = FALSE
    /\ everNonExclusive = FALSE
    /\ parent = [h \in Hier |-> Null]
    /\ children = [h \in Hier |-> <<>>]
    /\ nodeComps = [h \in Hier |-> {}]
    /\ hEmitted = <<>>
    /\ hOp = HOpRec("new", Null, Null, NoType, FALSE, FALSE, NoComponent)
    /\ hung = FALSE
    /\ alive = Hier
    /\ hSteps = <<>>
    /\ hBool = FALSE
    /\ components = <<>>
    /\ cgOwn = 0
    /\ cgGraph = <<>>
    /\ cgJson = Undefined
    /\ sysOp = SysOpRec("new", 0, FALSE)
    /\ cgOp = CgOpRec("new", FALSE)
    /\ cgChanged = FALSE
    /\ cgCalls = <<>>
    /\ cgResult = FALSE
    /\ cgPhase = "update"
    /\ cgFrames = 0

\* The hierarchies are created detached.
InitHierarchy ==
    /\ multiSelect = FALSE
    /\ exclusiveSelect = TRUE
    /\ selectedNodes = <<>>
    /\ selectedComponents = <<>>
    /\ subscribed = TRUE
    /\ emitted = <<>>
    /\ selOp = SelOpRec("new", "none", 0, FALSE)
    /\ everMulti = FALSE
    /\ everNonExclusive = FALSE
    /\ parent = [h \in Hier |-> Null]
    /\ children = [h \in Hier |-> <<>>]
    /\ nodeComps = [h \in Hier |-> {}]
    /\ hEmitted = <<>>
    /\ hOp = HOpRec("new", Null, Null, NoType, FALSE, FALSE, NoComponent)
    /\ hung = FALSE
    /\ alive = Hier
    /\ hSteps = <<>>
    /\ hBool = FALSE
    /\ components = <<>>
    /\ cgOwn = 0
    /\ cgGraph = <<>>
    /\ cgJson = Undefined
    /\ sysOp = SysOpRec("new", 0, FALSE)
    /\ cgOp = CgOpRec("new", FALSE)
    /\ cgChanged = FALSE
    /\ cgCalls = <<>>
    /\ cgResult = FALSE
    /\ cgPhase = "update"
    /\ cgFrames = 0

\* The hierarchies are created detached; their nodes own any set of the types.
InitSearch ==
    /\ multiSelect = FALSE
    /\ exclusiveSelect = TRUE
    /\ selectedNodes = <<>>
    /\ selectedComponents = <<>>
    /\ subscribed = TRUE
    /\ emitted = <<>>
    /\ selOp = SelOpRec("new", "none", 0, FALSE)
    /\ everMulti = FALSE
    /\ everNonExclusive = FALSE
    /\ parent = [h \in Hier |-> Null]
    /\ children = [h \in Hier |-> <<>>]
    /\ nodeComps \in [Hier -> SUBSET Types]
    /\ hEmitted = <<>>
    /\ hOp = HOpRec("new", Null, Null, NoType, FALSE, FALSE, NoComponent)
    /\ hung = FALSE
    /\ alive = Hier
    /\ hSteps = <<>>
    /\ hBool = FALSE
    /\ components = <<>>
    /\ cgOwn = 0
    /\ cgGraph = <<>>
    /\ cgJson = Undefined
    /\ sysOp = SysOpRec("new", 0, FALSE)
    /\ cgOp = CgOpRec("new", FALSE)
    /\ cgChanged = FALSE
    /\ cgCalls = <<>>
    /\ cgResult = FALSE
    /\ cgPhase = "update"
    /\ cgFrames = 0

\* the elements of a set of hierarchies in the order they were created
RECURSIVE InOrder(_)
InOrder(S) ==
    IF S = {} THEN <<>>
    ELSE LET m == CHOOSE x \in S : \A y \in S : x <= y
         IN  <<m>> \o InOrder(S \ {m})

\* the trees over SearchHier built by addChild calls made in the order of
\* creation: hierarchy 1 is the root, every other one is the child of an
\* earlier one
TreeParents ==
    {f \in [SearchHier -> 0..NumSearchHier] :
        /\ f[1] = Null
        /\ \A h \in SearchHier \ {1} : f[h] >= 1 /\ f[h] < h}

\* A tree of hierarchies, some of whose nodes own a component of the type.
InitChildSearch ==
    /\ multiSelect = FALSE
    /\ exclusiveSelect = TRUE
    /\ selectedNodes = <<>>
    /\ selectedComponents = <<>>
    /\ subscribed = TRUE
    /\ emitted = <<>>
    /\ selOp = SelOpRec("new", "none", 0, FALSE)
    /\ everMulti = FALSE
    /\ everNonExclusive = FALSE
    /\ parent \in TreeParents
    /\ children = [h \in SearchHier |-> InOrder({c \in SearchHier : parent[c] = h})]
    /\ nodeComps \in [SearchHier -> SUBSET Types]
    /\ hEmitted = <<>>
    /\ hOp = HOpRec("new", Null, Null, NoType, FALSE, FALSE, NoComponent)
    /\ hung = FALSE
    /\ alive = SearchHier
    /\ hSteps = <<>>
    /\ hBool = FALSE
    /\ components = <<>>
    /\ cgOwn = 0
    /\ cgGraph = <<>>
    /\ cgJson = Undefined
    /\ sysOp = SysOpRec("new", 0, FALSE)
    /\ cgOp = CgOpRec("new", FALSE)
    /\ cgChanged = FALSE
    /\ cgCalls = <<>>
    /\ cgResult = FALSE
    /\ cgPhase = "update"
    /\ cgFrames = 0

\* The System after construction, with an empty registry.
InitSystem ==
    /\ multiSelect = FALSE
    /\ exclusiveSelect = TRUE
    /\ selectedNodes = <<>>
    /\ selectedComponents = <<>>
    /\ subscribed = TRUE
    /\ emitted = <<>>
    /\ selOp = SelOpRec("new", "none", 0, FALSE)
    /\ everMulti = FALSE
    /\ everNonExclusive = FALSE
    /\ parent = [h \in Hier |-> Null]
    /\ children = [h \in Hier |-> <<>>]
    /\ nodeComps = [h \in Hier |-> {}]
    /\ hEmitted = <<>>
    /\ hOp = HOpRec("new", Null, Null, NoType, FALSE, FALSE, NoComponent)
    /\ hung = FALSE
    /\ alive = Hier
    /\ hSteps = <<>>
    /\ hBool = FALSE
    /\ components = <<>>
    /\ cgOwn = 0
    /\ cgGraph = <<>>
    /\ cgJson = Undefined
    /\ sysOp = SysOpRec("new", 0, FALSE)
    /\ cgOp = CgOpRec("new", FALSE)
    /\ cgChanged = FALSE
    /\ cgCalls = <<>>
    /\ cgResult = FALSE
    /\ cgPhase = "update"
    /\ cgFrames = 0

\* A CGraph after construction: its nested graph is empty.
InitCGraph ==
    /\ multiSelect = FALSE
    /\ exclusiveSelect = TRUE
    /\ selectedNodes = <<>>
    /\ selectedComponents = <<>>
    /\ subscribed = TRUE
    /\ emitted = <<>>
    /\ selOp = SelOpRec("new", "none", 0, FALSE)
    /\ everMulti = FALSE
    /\ everNonExclusive = FALSE
    /\ parent = [h \in Hier |-> Null]
    /\ children = [h \in Hier |-> <<>>]
    /\ nodeComps = [h \in Hier |-> {}]
    /\ hEmitted = <<>>
    /\ hOp = HOpRec("new", Null, Null, NoType, FALSE, FALSE, NoComponent)
    /\ hung = FALSE
    /\ alive = Hier
    /\ hSteps = <<>>
    /\ hBool = FALSE
    /\ components = <<>>
    /\ cgOwn = 0
    /\ cgGraph = <<>>
    /\ cgJson = Undefined
    /\ sysOp = SysOpRec("new", 0, FALSE)
    /\ cgOp = CgOpRec("new", FALSE)
    /\ cgChanged = FALSE
    /\ cgCalls = <<>>
    /\ cgResult = FALSE
    /\ cgPhase = "update"
    /\ cgFrames = 0

\* A graph-hosting component before the first frame.
InitFrames ==
    /\ multiSelect = FALSE
    /\ exclusiveSelect = TRUE
    /\ selectedNodes = <<>>
    /\ selectedComponents = <<>>
    /\ subscribed = TRUE
    /\ emitted = <<>>
    /\ selOp = SelOpRec("new", "none", 0, FALSE)
    /\ everMulti = FALSE
    /\ everNonExclusive = FALSE
    /\ parent = [h \in Hier |-> Null]
    /\ children = [h \in Hier |-> <<>>]
    /\ nodeComps = [h \in Hier |-> {}]
    /\ hEmitted = <<>>
    /\ hOp = HOpRec("new", Null, Null, NoType, FALSE, FALSE, NoComponent)
    /\ hung = FALSE
    /\ alive = Hier
    /\ hSteps = <<>>
    /\ hBool = FALSE
    /\ components = <<>>
    /\ cgOwn = 0
    /\ cgGraph = <<>>
    /\ cgJson = Undefined
    /\ sysOp = SysOpRec("new", 0, FALSE)
    /\ cgOp = CgOpRec("new", FALSE)
    /\ cgChanged \in BOOLEAN
    /\ cgCalls = <<>>
    /\ cgResult = FALSE
    /\ cgPhase = "update"
    /\ cgFrames = 0

SpecSelection == InitSelection /\ [][SelNext]_vars

SpecHierarchy == InitHierarchy /\ [][HierNext]_vars

SpecLifecycle == InitHierarchy /\ [][LifeNext]_vars

SpecChildSearch == InitChildSearch /\ [][ChildSearchNext]_vars

SpecFrames == InitFrames /\ [][FrameNext]_vars

SpecSearch == InitSearch /\ [][SearchNext]_vars

SpecSystem == InitSystem /\ [][SysNext]_vars

SpecCGraph == InitCGraph /\ [][CgNext]_vars

\* ------------------------------------------------ properties of selection
IsNodeEvent(e, n, b) ==
    e.src = "controller" /\ e.type = selectNodeEvent /\ e.kind = "node"
    /\ e.id = n /\ e.selected = b

IsComponentEvent(e, c, b) ==
    e.src = "controller" /\ e.type = selectComponentEvent /\ e.kind = "component"
    /\ e.id = c /\ e.selected = b

IsUpdateEvent(e) == e.src = "controller" /\ e.type = updateEvent

\* C1: when the System reports the removal of a selected node N to a
\* subscribed controller, the controller removes N from the selected-node
\* set and emits the node event (N, selected=false), and only after that
\* the update event.
C1_RemovalDeselectsNode ==
    [][ ( /\ selOp'.op = "systemNodeEvent"
          /\ selOp'.flag
          /\ subscribed
          /\ SetHas(selectedNodes, selOp'.id) )
        => ( /\ ~SetHas(selectedNodes', selOp'.id)
             /\ \E i, j \in 1..Len(emitted') :
                   /\ i < j
                   /\ IsNodeEvent(emitted'[i], selOp'.id, FALSE)
                   /\ IsUpdateEvent(emitted'[j]) ) ]_vars

\* C2: with multiSelect=false and exclusiveSelect=true, selectNode(N) on a
\* node that is not selected leaves the selected-node set equal to {N} and
\* emits (M, false) for every previously selected node M before (N, true);
\* and as long as the configuration has always been the default one, each
\* selection set holds at most one element.
C2_DefaultSelectStep ==
    ( /\ selOp'.op = "selectNode"
      /\ ~multiSelect /\ exclusiveSelect
      /\ ~SetHas(selectedNodes, selOp'.id) )
    => ( /\ selectedNodes' = << selOp'.id >>
         /\ \A m \in SetElems(selectedNodes) :
               \E i, j \in 1..Len(emitted') :
                   /\ i < j
                   /\ IsNodeEvent(emitted'[i], m, FALSE)
                   /\ IsNodeEvent(emitted'[j], selOp'.id, TRUE)
         /\ IsNodeEvent(emitted'[Len(emitted')], selOp'.id, TRUE) )

C2_AtMostOne ==
    (~everMulti /\ ~everNonExclusive)
    => (Len(selectedNodes) <= 1 /\ Len(selectedComponents) <= 1)

C2_SingleSelect == [][C2_DefaultSelectStep]_vars /\ []C2_AtMostOne

\* selecting N1 then N2 in the default configuration: only N2 is selected,
\* after deselect(N1), select(N2)
C2_Witness ==
    /\ ~everMulti /\ ~everNonExclusive
    /\ selOp = SelOpRec("selectNode", "node", 2, FALSE)
    /\ selectedNodes = <<2>>
    /\ Len(emitted) = 2
    /\ IsNodeEvent(emitted[1], 1, FALSE)
    /\ IsNodeEvent(emitted[2], 2, TRUE)

\* C3: with exclusiveSelect=true, selecting a component that is not selected
\* emits (node, false) for every selected node before (component, true) and
\* empties the selected-node set, and symmetrically for selecting a node;
\* while exclusiveSelect has always been true the two selection sets are
\* never both non-empty.
C3_ComponentStep ==
    ( /\ selOp'.op = "selectComponent"
      /\ exclusiveSelect
      /\ ~SetHas(selectedComponents, selOp'.id) )
    => ( /\ selectedNodes' = <<>>
         /\ \A m \in SetElems(selectedNodes) :
               \E i, j \in 1..Len(emitted') :
                   /\ i < j
                   /\ IsNodeEvent(emitted'[i], m, FALSE)
                   /\ IsComponentEvent(emitted'[j], selOp'.id, TRUE) )

C3_NodeStep ==
    ( /\ selOp'.op = "selectNode"
      /\ exclusiveSelect
      /\ ~SetHas(selectedNodes, selOp'.id) )
    => ( /\ selectedComponents' = <<>>
         /\ \A m \in SetElems(selectedComponents) :
               \E i, j \in 1..Len(emitted') :
                   /\ i < j
                   /\ IsComponentEvent(emitted'[i], m, FALSE)
                   /\ IsNodeEvent(emitted'[j], selOp'.id, TRUE) )

C3_NeverBoth ==
    ~everNonExclusive => (selectedNodes = <<>> \/ selectedComponents = <<>>)

C3_Exclusive ==
    [][C3_ComponentStep /\ C3_NodeStep]_vars /\ []C3_NeverBoth

\* a component was selected while a node was selected, in exclusive mode
C3_Witness ==
    /\ ~everNonExclusive
    /\ selOp.op = "selectComponent"
    /\ selectedNodes = <<>>
    /\ selectedComponents = << selOp.id >>
    /\ \E i, j \in 1..Len(emitted) :
          /\ i < j
          /\ \E n \in Nodes : IsNodeEvent(emitted[i], n, FALSE)
          /\ IsComponentEvent(emitted[j], selOp.id, TRUE)

\* C4: with multiSelect=true, selectNode(N, toggle=true) on a node that is
\* not selected adds N, keeps every other selected node and emits no node
\* deselect event; on a selected node it removes exactly N, emits exactly
\* the one event (N, false) and keeps every other selected node.
C4_ToggleStep ==
    ( /\ selOp'.op = "selectNode"
      /\ selOp'.flag
      /\ multiSelect )
    => IF SetHas(selectedNodes, selOp'.id)
       THEN /\ SetElems(selectedNodes') = SetElems(selectedNodes) \ {selOp'.id}
            /\ Len(emitted') = 1
            /\ IsNodeEvent(emitted'[1], selOp'.id, FALSE)
       ELSE /\ SetElems(selectedNodes') = SetElems(selectedNodes) \cup {selOp'.id}
            /\ \A i \in 1..Len(emitted') :
                  ~(emitted'[i].kind = "node" /\ ~emitted'[i].selected)

C4_MultiSelectToggle == [][C4_ToggleStep]_vars

\* N1 and N2 were both selected and N1 was toggled off: N2 stays selected
C4_Witness ==
    /\ multiSelect
    /\ selOp = SelOpRec("selectNode", "node", 1, TRUE)
    /\ selectedNodes = <<2>>
    /\ Len(emitted) = 1
    /\ IsNodeEvent(emitted[1], 1, FALSE)

\* C15: dispose() leaves both selection sets unchanged, emits nothing and
\* unregisters the handlers; from then on the handlers stay unregistered and
\* System node/component events cause no controller event and no change of
\* the selection sets.
C15_DisposeStep ==
    /\ (selOp'.op = "dispose")
       => /\ ~subscribed'
          /\ emitted' = <<>>
          /\ selectedNodes' = selectedNodes
          /\ selectedComponents' = selectedComponents
    /\ ~subscribed => ~subscribed'
    /\ ((~subscribed \/ selOp.op = "dispose")
        /\ selOp'.op \in {"systemNodeEvent", "systemComponentEvent"})
       => /\ emitted' = <<>>
          /\ selectedNodes' = selectedNodes
          /\ selectedComponents' = selectedComponents

C15_DisposeUnsubscribes == [][C15_DisposeStep]_vars

\* after dispose, the removal of a selected node was reported: nothing happened
C15_Witness ==
    /\ ~subscribed
    /\ selOp.op = "systemNodeEvent" /\ selOp.flag
    /\ SetHas(selectedNodes, selOp.id)
    /\ emitted = <<>>

\* C16: selectNode(N, toggle) on a selected node, unless multiSelect && toggle,
\* emits no event and leaves both selection sets unchanged; the same for
\* selectComponent on a selected component.
C16_NoOpStep ==
    /\ ( /\ selOp'.op = "selectNode"
         /\ SetHas(selectedNodes, selOp'.id)
         /\ ~(multiSelect /\ selOp'.flag) )
       => /\ emitted' = <<>>
          /\ selectedNodes' = selectedNodes
          /\ selectedComponents' = selectedComponents
    /\ ( /\ selOp'.op = "selectComponent"
         /\ SetHas(selectedComponents, selOp'.id)
         /\ ~(multiSelect /\ selOp'.flag) )
       => /\ emitted' = <<>>
          /\ selectedNodes' = selectedNodes
          /\ selectedComponents' = selectedComponents

C16_ReselectIsNoOp == [][C16_NoOpStep]_vars

\* multiSelect is on, two nodes are selected and one was selected again
\* without toggle: nothing was emitted
C16_Witness ==
    /\ multiSelect
    /\ selOp.op = "selectNode" /\ ~selOp.flag
    /\ SetHas(selectedNodes, selOp.id)
    /\ Len(selectedNodes) = 2
    /\ emitted = <<>>

\* C17: every component selection event of the controller is followed at
\* once by one System broadcast of the component selection event for the
\* same component with the same payload; the System emits no other event,
\* so node selection events are not broadcast.
IsBroadcastOf(s, e) ==
    s.src = "system" /\ s.kind = "component" /\ s.id = e.id
    /\ s.selected = e.selected

C17_ComponentEventsBroadcast ==
    \A i \in 1..Len(emitted) :
        /\ (emitted[i].src = "controller" /\ emitted[i].type = selectComponentEvent)
           => /\ i < Len(emitted)
              /\ IsBroadcastOf(emitted[i + 1], emitted[i])
              /\ emitted[i + 1].type = selectComponentEvent
        /\ (emitted[i].src = "system")
           => /\ i > 1
              /\ emitted[i - 1].src = "controller"
              /\ emitted[i - 1].type = selectComponentEvent
              /\ IsBroadcastOf(emitted[i], emitted[i - 1])

\* C20: whenever the controller emits a node or component selection event
\* (X, selected=b), X is in the corresponding selection set at that moment
\* if and only if b is true.
C20_EventsAgreeWithState ==
    \A i \in 1..Len(emitted) :
        (emitted[i].src = "controller"
         /\ emitted[i].type \in {selectNodeEvent, selectComponentEvent})
        => (emitted[i].member <=> emitted[i].selected)

\* ------------------------------------------------ properties of Hierarchy
\* the hierarchies from h up to its root, following par
RECURSIVE AncestorChain(_, _, _)
AncestorChain(par, h, fuel) ==
    IF h = Null \/ fuel = 0 THEN <<>>
    ELSE <<h>> \o AncestorChain(par, par[h], fuel - 1)

\* ev is the event e emitted at every hierarchy of `targets` and then at its
\* node, in the order of `targets`, and nothing else
EmittedAlong(ev, targets, e) ==
    /\ Len(ev) = 2 * Len(targets)
    /\ \A i \in 1..Len(targets) :
          /\ ev[2 * i - 1] = [at |-> "component", target |-> targets[i], event |-> e]
          /\ ev[2 * i] = [at |-> "node", target |-> targets[i], event |-> e]

\* C5: removeChild(h) on h's parent P multicasts {parent=P, child=h,
\* add=false, remove=true} at h and h's node and then at P and every
\* ancestor of P up to the root (and each one's node).
C5_RemoveChildMulticast ==
    (hOp.op = "removeChild" /\ ~hOp.error)
    => EmittedAlong(hEmitted,
                    <<hOp.arg>> \o AncestorChain(parent, hOp.this, NumHier),
                    [type |-> "hierarchy", add |-> FALSE, remove |-> TRUE,
                     parent |-> hOp.this, child |-> hOp.arg])

\* C6: after a successful P.addChild(h) the event {parent=P, child=h,
\* add=true, remove=false} has been emitted exactly once at h and at h's
\* node, then at P and P's node, then at every further ancestor and its node
\* in order up to the root, and at no other hierarchy.
C6_AddChildMulticast ==
    (hOp.op = "addChild" /\ ~hOp.error /\ ~hung)
    => LET up == AncestorChain(parent, hOp.this, NumHier) IN
       /\ EmittedAlong(hEmitted, <<hOp.arg>> \o up,
                       [type |-> "hierarchy", add |-> TRUE, remove |-> FALSE,
                        parent |-> hOp.this, child |-> hOp.arg])
       /\ parent[up[Len(up)]] = Null
       /\ \A i, j \in 1..Len(hEmitted) :
             (i # j /\ hEmitted[i].at = hEmitted[j].at)
             => hEmitted[i].target # hEmitted[j].target

\* leaf 3 was added under mid 2 whose parent is root 1: leaf, mid, root
C6_Witness ==
    /\ hOp.op = "addChild" /\ ~hOp.error /\ ~hung
    /\ hOp.this = 2 /\ hOp.arg = 3
    /\ parent[2] = 1 /\ parent[1] = Null
    /\ [i \in 1..Len(hEmitted) |-> hEmitted[i].target] = <<3, 3, 2, 2, 1, 1>>

Count(a, x) == Cardinality({i \in 1..Len(a) : a[i] = x})

\* C7: A.addChild(B) on a B without parent makes B.parent = A and puts B into
\* A.children exactly once; A.addChild(B) on a B that has a parent (a second
\* call without removeChild in between) fails with an error, emits no event
\* and leaves every parent and child list unchanged.
C7_AddChildStep ==
    (hOp'.op = "addChild")
    => IF parent[hOp'.arg] = Null
       THEN /\ ~hOp'.error
            /\ parent'[hOp'.arg] = hOp'.this
            /\ Count(children'[hOp'.this], hOp'.arg) = 1
       ELSE /\ hOp'.error
            /\ hEmitted' = <<>>
            /\ parent' = parent
            /\ children' = children

C7_AddChildOnce == [][C7_AddChildStep]_vars

\* the second A.addChild(B) has just failed
C7_Witness ==
    /\ hOp.op = "addChild" /\ hOp.error
    /\ parent[hOp.arg] = hOp.this
    /\ Count(children[hOp.this], hOp.arg) = 1
    /\ hEmitted = <<>>

\* C10: getParent(type, recursive) terminates and returns the component of
\* the type on the immediate parent's node if there is one; otherwise, when
\* recursive, the one on the nearest further ancestor whose node has one;
\* otherwise null.
RECURSIVE NearestAbove(_, _, _)
NearestAbove(h, t, fuel) ==
    IF h = Null \/ fuel = 0 THEN NoComponent
    ELSE IF t \in nodeComps[h] THEN [node |-> h, type |-> t]
    ELSE NearestAbove(parent[h], t, fuel - 1)

C10_GetParent ==
    (hOp.op = "getParent")
    => /\ ~hung
       /\ hOp.result =
            IF parent[hOp.this] = Null THEN NoComponent
            ELSE IF hOp.type \in nodeComps[parent[hOp.this]]
                 THEN [node |-> parent[hOp.this], type |-> hOp.type]
            ELSE IF hOp.recursive
                 THEN NearestAbove(parent[parent[hOp.this]], hOp.type, NumHier)
            ELSE NoComponent

\* C13: P.removeChild(h) on an h whose parent is not P fails, emits no event
\* and changes neither parent nor children; on an h whose parent is P it
\* succeeds, leaves h without a parent and P's child list without h, and the
\* other children of P keep their relative order.
C13_RemoveChildStep ==
    (hOp'.op = "removeChild")
    => LET p == hOp'.this
           h == hOp'.arg
       IN  IF parent[h] # p
           THEN /\ hOp'.error
                /\ hEmitted' = <<>>
                /\ parent' = parent
                /\ children' = children
           ELSE /\ ~hOp'.error
                /\ parent'[h] = Null
                /\ \A i \in 1..Len(children'[p]) : children'[p][i] # h
                /\ children'[p] = SelectSeq(children[p], LAMBDA c : c # h)
                /\ \A o \in Hier \ {h} : parent'[o] = parent[o]
                /\ \A o \in Hier \ {p} : children'[o] = children[o]

RECURSIVE ReachesNull(_, _, _)
ReachesNull(par, h, fuel) ==
    IF h = Null THEN TRUE
    ELSE IF fuel = 0 THEN FALSE
    ELSE ReachesNull(par, par[h], fuel - 1)

\* C19: the parent relation stays acyclic and addChild always terminates:
\* every call P.addChild(h), h = P and h the root of P's tree included, either
\* fails without changing state or completes its multicast, and afterwards
\* following parent from any hierarchy reaches null.
C19_AcyclicAndTerminating ==
    /\ ~hung
    /\ \A h \in Hier : ReachesNull(parent, h, NumHier)
    /\ (hOp.op = "addChild" /\ hOp.error) => hEmitted = <<>>

\* the hierarchies below h, following par upwards from each of them
Descendants(par, h) ==
    {o \in Hier \ {h} :
        \E i \in 1..Len(AncestorChain(par, o, NumHier)) :
            AncestorChain(par, o, NumHier)[i] = h}

\* the position of step x in the sequence of steps s, 0 when it is absent
StepIndex(s, x) ==
    IF \E i \in 1..Len(s) : s[i] = x
    THEN CHOOSE i \in 1..Len(s) : s[i] = x /\ \A j \in 1..(i - 1) : s[j] # x
    ELSE 0

\* C14: disposing a Hierarchy H first detaches H from its parent (if any) via
\* removeChild, then disposes the owning node of every direct child, which
\* disposes all further descendants, and only then runs the base disposal;
\* afterwards the former parent's child list does not contain H, H has no
\* children, and no live Hierarchy has H or a former descendant of H as its
\* parent or child.
C14_DisposeStep ==
    (hOp'.op = "dispose")
    => LET H    == hOp'.this
           P    == parent[H]
           kids == children[H]
           gone == {H} \cup Descendants(parent, H)
           S    == hSteps'
           pos(c) == StepIndex(S, DisposeStep("nodeDispose", c, c))
       IN  /\ S # <<>>
           /\ IF P # Null
              THEN S[1] = DisposeStep("removeChild", P, H)
              ELSE StepIndex(S, DisposeStep("removeChild", P, H)) = 0
           /\ S[Len(S)] = DisposeStep("superDispose", H, H)
           /\ StepIndex(S, DisposeStep("superDispose", H, H)) = Len(S)
           /\ \A i \in 1..Len(kids) :
                 /\ pos(kids[i]) > (IF P # Null THEN 1 ELSE 0)
                 /\ pos(kids[i]) < Len(S)
                 /\ \A j \in 1..(i - 1) : pos(kids[j]) < pos(kids[i])
           /\ alive' = alive \ gone
           /\ P # Null => \A i \in 1..Len(children'[P]) : children'[P][i] # H
           /\ children'[H] = <<>>
           /\ \A o \in alive' :
                 /\ parent'[o] \notin gone
                 /\ \A i \in 1..Len(children'[o]) : children'[o][i] \notin gone

C14_Dispose == [][C14_DisposeStep]_vars

\* a hierarchy with a parent and a child has been disposed
C14_Witness ==
    /\ hOp.op = "dispose"
    /\ Len(hSteps) = 5
    /\ hSteps[1].step = "removeChild"
    /\ hSteps[2].step = "nodeDispose"
    /\ Cardinality(alive) = 1

\* C18: in every state reached by addChild, removeChild and dispose calls,
\* failing calls included, C is in P.children if and only if C.parent is P,
\* no child list holds a hierarchy twice, and every hierarchy is in at most
\* one child list.
C18_TreeConsistent ==
    /\ \A P \in Hier, C \in Hier :
          (\E i \in 1..Len(children[P]) : children[P][i] = C) <=> parent[C] = P
    /\ \A P \in Hier, C \in Hier : Count(children[P], C) <= 1
    /\ \A C \in Hier :
          Cardinality({P \in Hier : Count(children[P], C) >= 1}) <= 1

\* a hierarchy was disposed and a failing call followed, with a parent and
\* its child still alive
C18_Witness ==
    /\ alive # Hier
    /\ hOp.error
    /\ \E C \in alive : parent[C] \in alive

\* the number of parent links from o up to h, 0 when h is not above o
DepthBelow(par, h, o) ==
    LET chain == AncestorChain(par, o, NumSearchHier)
    IN  IF \E i \in 2..Len(chain) : chain[i] = h
        THEN (CHOOSE i \in 2..Len(chain) : chain[i] = h) - 1
        ELSE 0

\* the hierarchies below h whose node has a component of type t
MatchesBelow(par, nc, h, t) ==
    {o \in SearchHier : DepthBelow(par, h, o) > 0 /\ t \in nc[o]}

\* C11: getChild(type, true) searches the subtree breadth-first: it returns
\* null iff no descendant's node has a component of the type, and otherwise a
\* component of a descendant at the smallest depth at which one exists;
\* hasChildren(type, recursive) is true exactly when getChild(type, recursive)
\* is non-null.
C11_GetChildBreadthFirst ==
    /\ (hOp.op = "getChild" /\ hOp.recursive)
       => LET M == MatchesBelow(parent, nodeComps, hOp.this, hOp.type)
          IN  IF M = {} THEN hOp.result = NoComponent
              ELSE /\ hOp.result.type = hOp.type
                   /\ hOp.result.node \in M
                   /\ \A o \in M : DepthBelow(parent, hOp.this, hOp.result.node)
                                       <= DepthBelow(parent, hOp.this, o)
    /\ (hOp.op = "hasChildren")
       => (hBool <=> getChild(children, nodeComps, hOp.this, hOp.type, hOp.recursive)
                        # NoComponent)

\* --------------------------------------------------- properties of System
\* C8: the registry holds at most one instance of each singleton type;
\* _addComponent of a singleton-flagged component while an instance of its
\* type is registered fails and leaves the registry unchanged; any other
\* _addComponent (a second component of a non-singleton type, or a singleton
\* after the earlier instance was removed) registers the component.
C8_AtMostOneSingleton ==
    \A i, j \in 1..Len(components) :
        (i # j /\ isSystemSingleton(components[i]))
        => typeName(components[i]) # typeName(components[j])

C8_AddStep ==
    (sysOp'.op = "_addComponent")
    => IF isSystemSingleton(sysOp'.id)
          /\ \E i \in 1..Len(components) :
                typeName(components[i]) = typeName(sysOp'.id)
       THEN sysOp'.error /\ components' = components
       ELSE ~sysOp'.error /\ components' = Append(components, sysOp'.id)

C8_Singleton == []C8_AtMostOneSingleton /\ [][C8_AddStep]_vars

\* two components of the plain type are registered and a second component of
\* the singleton type has just been refused
C8_Witness ==
    /\ sysOp = SysOpRec("_addComponent", 3, TRUE)
    /\ SetElems(components) = {1, 2, 4}

\* C9: deflate() of a CGraph returns the host component's own record with
\* the nested graph's serialized form under `graph`, so that inflate() of
\* the returned record restores the nested graph.
C9_DeflateAttachesGraph ==
    /\ (cgOp.op = "deflate")
       => cgJson = [defined |-> TRUE, own |-> cgOwn, graph |-> [nodes |-> cgGraph]]
    /\ (cgOp.op = "inflateDeflated") => ~cgOp.error

\* the last call invoked exactly the pass `pass` of the nested graph, once
CalledOnce(pass) == Len(cgCalls) = 1 /\ cgCalls[1].pass = pass

\* C12: every tick leaves `changed` true, whatever it was before and whatever
\* the nested graph's tick returns, and invokes the nested graph's tick once,
\* after the flag is set; update, preRender and postRender invoke the
\* corresponding pass of the nested graph once whatever the flag is, update
\* returning the nested graph's result; so the component is marked changed
\* at the start of every update that follows a frame.
C12_FrameStep ==
    /\ (cgOp'.op = "tick")
       => /\ cgChanged'
          /\ \E c \in Contexts : cgCalls' = <<GraphCall("tick", c, TRUE, cgResult')>>
    /\ (cgOp'.op = "update")
       => \E c \in Contexts : cgCalls' = <<GraphCall("update", c, cgChanged, cgResult')>>
    /\ (cgOp'.op = "preRender")
       => /\ \E c \in Contexts :
                cgCalls' = <<GraphCall("preRender", c, cgChanged, FALSE)>>
          /\ cgChanged' = cgChanged
    /\ (cgOp'.op = "postRender")
       => /\ \E c \in Contexts :
                cgCalls' = <<GraphCall("postRender", c, cgChanged, FALSE)>>
          /\ cgChanged' = cgChanged

C12_ChangedAtUpdate == (cgPhase = "update" /\ cgFrames >= 1) => cgChanged

C12_TickMarksChanged == [][C12_FrameStep]_vars /\ []C12_ChangedAtUpdate

\* in a later frame tick has run and the nested graph's tick, called once
\* with the flag set, answered false
C12_Witness ==
    /\ cgFrames >= 1
    /\ cgOp.op = "tick"
    /\ cgChanged
    /\ CalledOnce("tick")
    /\ cgCalls[1].changed
    /\ ~cgResult

====
